---- MODULE Spec2Model ----
(***************************************************************************)
(* Process-lifecycle supervision in adarshatimsina/vscode:                 *)
(*   - RemoteTunnelService (remoteTunnelService.ts): login/serve tunnel    *)
(*     process driven by account updates;                                  *)
(*   - teardown and waitForEndpoint of the browser smoke-test launcher     *)
(*     (src/unnamed/part_000).                                             *)
(***************************************************************************)
EXTENDS Integers, Sequences, FiniteSets, TLC

\* ---------------------------------------------------------------- bounds
\* Number of cancelable operations (child processes) one service may start.
MaxOps == 4
\* Number of teardown calls on one server process.
MaxTeardownCalls == 4
\* Tokens per output chunk, and data events per server process.
MaxChunkLen == 2
MaxChunks == 3

\* teardown's `while (retries < 3)`.
MaxAttempts == 3

\* ------------------------------------------------------------- accounts
Providers == {"github", "microsoft"}
Tokens == {"t1", "t2"}

\* IRemoteTunnelAccount | undefined; `undefined` is the record NoAccount.
NoAccount == [authenticationProviderId |-> "undefined", token |-> "undefined"]
Accounts == {acc \in [authenticationProviderId : Providers, token : Tokens] :
                 acc.authenticationProviderId = "github" \/ acc.token = "t1"}
AccountArgs == Accounts \cup {NoAccount}

\* The two behaviours an implementation of cancel() may have.
CancelModes == {"reject", "resolve"}

VARIABLES
    account,        \* this._account
    tunnelProcess,  \* this._tunnelProcess: index into ops, 0 = undefined
    ops,            \* every CancelablePromise created by runCodeTunneCommand
    microtasks,     \* FIFO of operations whose completion reaction is queued
    cancelMode,     \* how cancel() settles the cancelable promise
    callerTask,     \* TRUE while the running macrotask is the caller's
    disposed,       \* dispose() was called
    trace,          \* effects of the last handler, in program order
    nTokenFailed,   \* _onTokenFailedEmitter.fire count
    nTunnelFailed,  \* _onTunnelFailedEmitter.fire count
    \* teardown(serverPid, logger)
    tdPid,          \* serverProcess.pid: 0 = undefined
    tdAlive,        \* the process with that pid still exists
    tdState,        \* "idle", "killing" (awaiting tree-kill), "resolved", "rejected"
    tdRetries,      \* local variable retries
    tdKills,        \* tree-kill requests issued by the current call
    tdProbes,       \* process.kill(pid, 0) probes made by the current call
    tdLog,          \* logger.log lines of the current call
    tdCalls,        \* number of teardown calls so far
    tdAliveAtCall,  \* tdAlive when the current call started
    tdSignalled,    \* a tree-kill request has succeeded (signal delivered)
    \* waitForEndpoint(server, logger)
    server,         \* "running", "exited" (stdio still open), "closed"
    endpointFound,  \* local variable endpointFound
    future,         \* the returned promise: [state, value]
    epLogged,       \* chunks logged by the two data listeners
    epChunks,       \* data events delivered so far
    sawMarker,      \* a stdout chunk matched the readiness pattern
    sawEaddr,       \* a stderr chunk contained EADDRINUSE
    eaddrFirst      \* ... and did so before any stdout match

tunnelVars == <<account, tunnelProcess, ops, microtasks, cancelMode,
                callerTask, disposed, trace, nTokenFailed, nTunnelFailed>>

teardownVars == <<tdPid, tdAlive, tdState, tdRetries, tdKills, tdProbes, tdLog,
                  tdCalls, tdAliveAtCall, tdSignalled>>

endpointVars == <<server, endpointFound, future, epLogged, epChunks,
                  sawMarker, sawEaddr, eaddrFirst>>

vars == <<tunnelVars, teardownVars, endpointVars>>

\* ------------------------------------------------------------- helpers
Ev(e, op, a) == [e |-> e, op |-> op, a |-> a]

\* The mutable part of the service, threaded through the statements of a
\* handler.
Cur == [account |-> account, tunnelProcess |-> tunnelProcess, ops |-> ops,
        microtasks |-> microtasks, trace |-> <<>>,
        nTokenFailed |-> nTokenFailed, nTunnelFailed |-> nTunnelFailed]

Commit(s) ==
    /\ account' = s.account
    /\ tunnelProcess' = s.tunnelProcess
    /\ ops' = s.ops
    /\ microtasks' = s.microtasks
    /\ trace' = s.trace
    /\ nTokenFailed' = s.nTokenFailed
    /\ nTunnelFailed' = s.nTunnelFailed

Log(s, e, op, a) == [s EXCEPT !.trace = Append(@, Ev(e, op, a))]

\* Variant: the accounts are compared as object references only.
AccountDiffers_byReference(new, old) == new # NoAccount \/ old # NoAccount

\* updateAccount's guard: both defined -> compare token and provider id,
\* otherwise compare the references (only equal when both are undefined).
AccountDiffers(new, old) ==
    IF new # NoAccount /\ old # NoAccount
    THEN new.token # old.token
         \/ new.authenticationProviderId # old.authenticationProviderId
    ELSE new # old

\* A promise settles once; the reaction registered on it (the await in
\* updateTunnelProcess, or serveCommand.finally) is queued as a microtask.
SettleOp(s, i, how) ==
    IF s.ops[i].promise # "pending" THEN s
    ELSE [s EXCEPT !.ops[i].promise = how,
                   !.ops[i].cont = "queued",
                   !.microtasks = Append(@, i)]

\* token.onCancellationRequested listener of runCodeTunneCommand: kill the
\* child if the closure still holds it.
OnCancellationRequested(s, i) ==
    IF s.ops[i].proc = "running"
    THEN Log([s EXCEPT !.ops[i].signalled = TRUE], "kill", i, NoAccount)
    ELSE s

\* CancelablePromise.cancel(): idempotent, no-op after settlement; flips
\* the token (running the listener above) and settles the promise.
Cancel(s, i) ==
    IF s.ops[i].promise # "pending" \/ s.ops[i].cancelled THEN s
    ELSE SettleOp(OnCancellationRequested(
                      Log([s EXCEPT !.ops[i].cancelled = TRUE], "cancel", i, NoAccount), i),
                  i, IF cancelMode = "reject" THEN "rejected" ELSE "resolved")

\* runCodeTunneCommand: spawn the child and return the cancelable promise.
\* (The token of a new promise is never cancelled, so the initial
\* isCancellationRequested test does nothing.)
RunCodeTunneCommand(s, logLabel, a) ==
    Log([s EXCEPT !.ops = Append(@, [label |-> logLabel,
                                     proc |-> "running", signalled |-> FALSE,
                                     exitCode |-> -1, cancelled |-> FALSE,
                                     promise |-> "pending", cont |-> "waiting"])],
        "spawn:" \o logLabel, Len(s.ops) + 1, a)

\* 'exit' listener: resolves whatever the exit code is.
OnExit(s, i, code) ==
    SettleOp([s EXCEPT !.ops[i].proc = "exited", !.ops[i].exitCode = code],
             i, "resolved")

\* 'error' listener: rejects.  Both listeners clear the closure variable,
\* so only the first 'exit' or 'error' of a child has an effect.
OnError(s, i) ==
    SettleOp([s EXCEPT !.ops[i].proc = "errored"], i, "rejected")

SetTunnelProcess(s, v) ==
    Log([s EXCEPT !.tunnelProcess = v], "tunnelProcess:=", v, NoAccount)

\* Variant: the login command is started before the old operation is
\* cancelled.
UpdateTunnelProcess_spawnFirst(s) ==
    IF s.account = NoAccount
    THEN (IF s.tunnelProcess # 0
          THEN SetTunnelProcess(Cancel(s, s.tunnelProcess), 0) ELSE s)
    ELSE LET s1 == RunCodeTunneCommand(s, "login", s.account)
             s2 == IF s.tunnelProcess # 0 THEN Cancel(s1, s.tunnelProcess) ELSE s1
         IN  SetTunnelProcess(s2, Len(s2.ops))

\* Variant: without an account the function returns before it cancels.
UpdateTunnelProcess_earlyReturn(s) ==
    IF s.account = NoAccount THEN s
    ELSE LET s1 == IF s.tunnelProcess # 0
                   THEN SetTunnelProcess(Cancel(s, s.tunnelProcess), 0)
                   ELSE s
             s2 == RunCodeTunneCommand(s1, "login", s1.account)
         IN  SetTunnelProcess(s2, Len(s2.ops))

\* updateTunnelProcess up to `await loginProcess`.
UpdateTunnelProcess(s) ==
    LET s1 == IF s.tunnelProcess # 0
              THEN SetTunnelProcess(Cancel(s, s.tunnelProcess), 0)
              ELSE s
    IN  IF s1.account = NoAccount THEN s1
        ELSE LET s2 == RunCodeTunneCommand(s1, "login", s1.account)
             IN  SetTunnelProcess(s2, Len(s2.ops))

\* Variant: the completion handler leaves the stored account in place.
ServeFinally_keepAccount(s, i) ==
    IF s.tunnelProcess = i
    THEN Log([SetTunnelProcess(s, 0) EXCEPT !.nTunnelFailed = @ + 1],
             "fire:tunnelFailed", i, NoAccount)
    ELSE s

\* Variant: tunnel-failed is fired before the state is cleared.
ServeFinally_fireFirst(s, i) ==
    IF s.tunnelProcess = i
    THEN LET s1 == Log([s EXCEPT !.nTunnelFailed = @ + 1], "fire:tunnelFailed", i, NoAccount)
             s2 == SetTunnelProcess(s1, 0)
         IN  Log([s2 EXCEPT !.account = NoAccount], "account:=", 0, NoAccount)
    ELSE s

\* Variant: the completion handler does not compare the operation with
\* the active one.
ServeFinally_noIdentityCheck(s, i) ==
    LET s1 == SetTunnelProcess(s, 0)
        s2 == Log([s1 EXCEPT !.account = NoAccount], "account:=", 0, NoAccount)
    IN  Log([s2 EXCEPT !.nTunnelFailed = @ + 1], "fire:tunnelFailed", i, NoAccount)

\* serveCommand.finally(...)
ServeFinally(s, i) ==
    IF s.tunnelProcess = i
    THEN LET s1 == SetTunnelProcess(s, 0)
             s2 == Log([s1 EXCEPT !.account = NoAccount], "account:=", 0, NoAccount)
         IN  Log([s2 EXCEPT !.nTunnelFailed = @ + 1], "fire:tunnelFailed", i, NoAccount)
    ELSE s

\* Variant: the catch block fires token-failed without clearing the slot.
LoginContinuation_noClear(s, i) ==
    LET s1 == IF s.ops[i].promise = "rejected"
              THEN Log([s EXCEPT !.nTokenFailed = @ + 1],
                       "fire:tokenFailed", i, NoAccount)
              ELSE s
    IN  IF s1.tunnelProcess = i
        THEN LET s2 == RunCodeTunneCommand(s1, "tunnel", NoAccount)
             IN  SetTunnelProcess(s2, Len(s2.ops))
        ELSE s1

\* updateTunnelProcess after `await loginProcess`: catch block, then the
\* identity check that starts the serve command.
LoginContinuation(s, i) ==
    LET s1 == IF s.ops[i].promise = "rejected"
              THEN Log([SetTunnelProcess(s, 0) EXCEPT !.nTokenFailed = @ + 1],
                       "fire:tokenFailed", i, NoAccount)
              ELSE s
    IN  IF s1.tunnelProcess = i
        THEN LET s2 == RunCodeTunneCommand(s1, "tunnel", NoAccount)
             IN  SetTunnelProcess(s2, Len(s2.ops))
        ELSE s1

\* ------------------------------------------------ teardown (part_000)
\* process.kill(serverPid, 0) throws when the process does not exist.
ProbeThrows(aliveNow) == ~aliveNow

\* Variant: the probe is not wrapped in its own try/catch.
CatchKillError_uncaught(probeThrows) == IF probeThrows THEN "throw" ELSE "retry"

\* Variant: a throwing probe does not return from the function.
CatchKillError_noReturn(probeThrows) == "retry"

\* The catch block around the tree-kill request: a throwing probe returns,
\* a successful one logs and falls through to the loop condition.
CatchKillError(probeThrows) == IF probeThrows THEN "return" ELSE "retry"

\* Variant: the loop condition is off by one.
LoopContinues_offByOne(retries) == retries <= MaxAttempts

\* while (retries < 3)
LoopContinues(retries) == retries < MaxAttempts

\* -------------------------------------------- waitForEndpoint (part_000)
\* Output text is a sequence of tokens: "W" is the literal
\* "Web UI available at ", "E" is "EADDRINUSE", "nl" a line break, "u1" and
\* "u2" other text without line breaks.
ChunkTokens == {"W", "E", "nl", "u1", "u2"}

SeqsUpTo(S, n) == UNION {[1..k -> S] : k \in 1..n}
Chunks == SeqsUpTo(ChunkTokens, MaxChunkLen)

\* /Web UI available at (.+)/ : leftmost literal followed by at least one
\* character that is not a line terminator; 0 when there is no match.
MatchStart(c) ==
    LET hits == {i \in 1..Len(c) - 1 : c[i] = "W" /\ c[i + 1] # "nl"}
    IN  IF hits = {} THEN 0 ELSE CHOOSE i \in hits : \A j \in hits : i <= j

\* matches[1]: the greedy run of non-terminators after the literal.
Capture(c) ==
    LET i == MatchStart(c)
        ends == {j \in i + 1..Len(c) : \A k \in i + 1..j : c[k] # "nl"}
    IN  SubSeq(c, i + 1, CHOOSE j \in ends : \A k \in ends : k <= j)

\* error.toString().indexOf('EADDRINUSE') !== -1
HasEaddrInUse(c) == \E i \in 1..Len(c) : c[i] = "E"

Pending == [state |-> "pending", value |-> <<>>]

\* resolve / reject of a promise: only the first settlement is honoured.
Settle(f, how, v) ==
    IF f.state = "pending" THEN [state |-> how, value |-> v] ELSE f

\* Variant: every matching chunk replaces the outcome of the future.
OnStdoutData_lastWins(found, f, c) ==
    IF MatchStart(c) # 0
    THEN [found |-> TRUE, future |-> [state |-> "resolved", value |-> Capture(c)],
          logged |-> ~found]
    ELSE [found |-> found, future |-> f, logged |-> ~found]

\* server.stdout 'data' listener
OnStdoutData(found, f, c) ==
    IF MatchStart(c) # 0
    THEN [found |-> TRUE, future |-> Settle(f, "resolved", Capture(c)),
          logged |-> ~found]
    ELSE [found |-> found, future |-> f, logged |-> ~found]

\* Variant: the stderr listener only logs.
OnStderrData_logOnly(found, f, c) ==
    [found |-> found, future |-> f, logged |-> ~found]

\* server.stderr 'data' listener
OnStderrData(found, f, c) ==
    IF HasEaddrInUse(c)
    THEN [found |-> found, future |-> Settle(f, "rejected", c), logged |-> ~found]
    ELSE [found |-> found, future |-> f, logged |-> ~found]

\* ------------------------------------------------------------- initial
TunnelInit(modes) ==
    /\ account = NoAccount
    /\ tunnelProcess = 0
    /\ ops = <<>>
    /\ microtasks = <<>>
    /\ cancelMode \in modes
    /\ callerTask = FALSE
    /\ disposed = FALSE
    /\ trace = <<>>
    /\ nTokenFailed = 0
    /\ nTunnelFailed = 0

\* serverProcess.pid is undefined when the spawn failed; a spawned server
\* may already have exited when teardown is first called.
TeardownInit(pids) ==
    /\ tdPid \in pids
    /\ tdAlive \in (IF tdPid = 0 THEN {FALSE} ELSE BOOLEAN)
    /\ tdState = "idle"
    /\ tdRetries = 0
    /\ tdKills = 0
    /\ tdProbes = 0
    /\ tdLog = <<>>
    /\ tdCalls = 0
    /\ tdAliveAtCall = FALSE
    /\ tdSignalled = FALSE

EndpointInit ==
    /\ server = "running"
    /\ endpointFound = FALSE
    /\ future = Pending
    /\ epLogged = 0
    /\ epChunks = 0
    /\ sawMarker = FALSE
    /\ sawEaddr = FALSE
    /\ eaddrFirst = FALSE

Init == TunnelInit(CancelModes) /\ TeardownInit({0}) /\ EndpointInit

TeardownSpecInit == TunnelInit({"reject"}) /\ TeardownInit({0, 1}) /\ EndpointInit

EndpointSpecInit == TunnelInit({"reject"}) /\ TeardownInit({0}) /\ EndpointInit

\* ------------------------------------------------------ tunnel actions
\* A caller may call synchronously after its own earlier call; any other
\* task starts with the microtask queue drained.
CallerMayRun == ~disposed /\ (microtasks = <<>> \/ callerTask)

UpdateAccount(a) ==
    /\ CallerMayRun
    /\ (a # NoAccount /\ AccountDiffers(a, account)) => Len(ops) + 2 <= MaxOps
    /\ LET s0 == Log(Cur, "call:updateAccount", 0, a)
       IN  IF AccountDiffers(a, account)
           THEN Commit(UpdateTunnelProcess(
                    Log(Log([s0 EXCEPT !.account = a], "account:=", 0, a),
                        "fire:accountChanged", 0, a)))
           ELSE Commit(s0)
    /\ callerTask' = TRUE
    /\ UNCHANGED <<cancelMode, disposed, teardownVars, endpointVars>>

Dispose ==
    /\ CallerMayRun
    /\ LET s0 == Log(Cur, "call:dispose", 0, NoAccount)
       IN  IF tunnelProcess # 0
           THEN Commit(SetTunnelProcess(Cancel(s0, tunnelProcess), 0))
           ELSE Commit(s0)
    /\ disposed' = TRUE
    /\ callerTask' = TRUE
    /\ UNCHANGED <<cancelMode, teardownVars, endpointVars>>

ExitCodes == {0, 1}

\* The child emits 'exit'.
ProcExit(i, code) ==
    /\ microtasks = <<>>
    /\ ops[i].proc = "running"
    /\ Commit(OnExit(Log(Cur, "event:exit", i, NoAccount), i, code))
    /\ callerTask' = FALSE
    /\ UNCHANGED <<cancelMode, disposed, teardownVars, endpointVars>>

\* The child emits 'error' (it could not be spawned).
ProcError(i) ==
    /\ microtasks = <<>>
    /\ ops[i].proc = "running"
    /\ Commit(OnError(Log(Cur, "event:error", i, NoAccount), i))
    /\ callerTask' = FALSE
    /\ UNCHANGED <<cancelMode, disposed, teardownVars, endpointVars>>

\* The oldest queued completion reaction runs.
RunMicrotask ==
    /\ microtasks # <<>>
    /\ LET i == Head(microtasks)
           s0 == Log([Cur EXCEPT !.microtasks = Tail(@), !.ops[i].cont = "done"],
                     "microtask", i, NoAccount)
       IN  IF ops[i].label = "login"
           THEN Commit(LoginContinuation(s0, i))
           ELSE Commit(ServeFinally(s0, i))
    /\ callerTask' = FALSE
    /\ UNCHANGED <<cancelMode, disposed, teardownVars, endpointVars>>

Next ==
    \/ \E a \in AccountArgs : UpdateAccount(a)
    \/ Dispose
    \/ \E i \in 1..Len(ops) : \E code \in ExitCodes : ProcExit(i, code)
    \/ \E i \in 1..Len(ops) : ProcError(i)
    \/ RunMicrotask

Spec == Init /\ [][Next]_vars

\* ---------------------------------------------------- teardown actions
\* teardown(serverPid, logger) up to the first await.
TeardownCall ==
    /\ tdState \in {"idle", "resolved"}
    /\ tdCalls < MaxTeardownCalls
    /\ tdCalls' = tdCalls + 1
    /\ tdAliveAtCall' = tdAlive
    /\ tdProbes' = 0
    /\ tdLog' = <<>>
    /\ IF tdPid = 0
       THEN tdState' = "resolved" /\ tdRetries' = 0 /\ tdKills' = 0
       ELSE tdState' = "killing" /\ tdRetries' = 1 /\ tdKills' = 1
    /\ UNCHANGED <<tdPid, tdAlive, tdSignalled, tunnelVars, endpointVars>>

\* promisify(kill)(serverPid) settles; on failure the catch block runs and
\* the loop goes on to the next await or to the end of the function.
TreeKillSettles(failed) ==
    /\ tdState = "killing"
    /\ IF ~failed
       THEN /\ tdState' = "resolved"
            /\ tdSignalled' = TRUE
            /\ UNCHANGED <<tdRetries, tdKills, tdProbes, tdLog>>
       ELSE LET r == CatchKillError(ProbeThrows(tdAlive))
            IN  /\ tdProbes' = tdProbes + 1
                /\ UNCHANGED tdSignalled
                /\ CASE r = "return" ->
                          /\ tdState' = "resolved"
                          /\ UNCHANGED <<tdRetries, tdKills, tdLog>>
                     [] r = "throw" ->
                          /\ tdState' = "rejected"
                          /\ UNCHANGED <<tdRetries, tdKills, tdLog>>
                     [] OTHER ->
                          IF LoopContinues(tdRetries)
                          THEN /\ tdRetries' = tdRetries + 1
                               /\ tdKills' = tdKills + 1
                               /\ tdLog' = Append(tdLog, "error")
                               /\ tdState' = "killing"
                          ELSE /\ tdLog' = tdLog \o <<"error", "gave up">>
                               /\ tdState' = "resolved"
                               /\ UNCHANGED <<tdRetries, tdKills>>
    /\ UNCHANGED <<tdPid, tdAlive, tdCalls, tdAliveAtCall, tunnelVars, endpointVars>>

\* The server process goes away (by itself or as the effect of a signal).
ProcessGone ==
    /\ tdAlive
    /\ tdAlive' = FALSE
    /\ UNCHANGED <<tdPid, tdState, tdRetries, tdKills, tdProbes, tdLog, tdCalls,
                   tdAliveAtCall, tdSignalled, tunnelVars, endpointVars>>

TeardownNext ==
    \/ TeardownCall
    \/ \E failed \in BOOLEAN : TreeKillSettles(failed)
    \/ ProcessGone

TeardownSpec == TeardownSpecInit /\ [][TeardownNext]_vars

\* ----------------------------------------------- waitForEndpoint actions
StdoutData(c) ==
    /\ server # "closed"
    /\ epChunks < MaxChunks
    /\ LET r == OnStdoutData(endpointFound, future, c)
       IN  /\ endpointFound' = r.found
           /\ future' = r.future
           /\ epLogged' = epLogged + (IF r.logged THEN 1 ELSE 0)
    /\ epChunks' = epChunks + 1
    /\ sawMarker' = (sawMarker \/ MatchStart(c) # 0)
    /\ UNCHANGED <<server, sawEaddr, eaddrFirst, tunnelVars, teardownVars>>

StderrData(c) ==
    /\ server # "closed"
    /\ epChunks < MaxChunks
    /\ LET r == OnStderrData(endpointFound, future, c)
       IN  /\ endpointFound' = r.found
           /\ future' = r.future
           /\ epLogged' = epLogged + (IF r.logged THEN 1 ELSE 0)
    /\ epChunks' = epChunks + 1
    /\ sawEaddr' = (sawEaddr \/ HasEaddrInUse(c))
    /\ eaddrFirst' = (eaddrFirst \/ (HasEaddrInUse(c) /\ ~sawMarker))
    /\ UNCHANGED <<server, sawMarker, tunnelVars, teardownVars>>

\* The server emits 'exit': waitForEndpoint registered no listener for it.
ServerExit ==
    /\ server = "running"
    /\ server' = "exited"
    /\ UNCHANGED <<endpointFound, future, epLogged, epChunks, sawMarker, sawEaddr,
                   eaddrFirst, tunnelVars, teardownVars>>

\* The stdio streams of the exited server end: no further data events.
ServerClose ==
    /\ server = "exited"
    /\ server' = "closed"
    /\ UNCHANGED <<endpointFound, future, epLogged, epChunks, sawMarker, sawEaddr,
                   eaddrFirst, tunnelVars, teardownVars>>

EndpointNext ==
    \/ \E c \in Chunks : StdoutData(c)
    \/ \E c \in Chunks : StderrData(c)
    \/ ServerExit
    \/ ServerClose

EndpointSpec == EndpointSpecInit /\ [][EndpointNext]_vars

TypeOK ==
    /\ account \in AccountArgs
    /\ tunnelProcess \in 0..Len(ops)
    /\ Len(ops) <= MaxOps
    /\ tdState \in {"idle", "killing", "resolved", "rejected"}
    /\ future.state \in {"pending", "resolved", "rejected"}

\* =============================================================== claims
LiveProcs == {i \in 1..Len(ops) : ops[i].proc = "running"}

Logins == {i \in 1..Len(ops) : ops[i].label = "login"}

\* The login operation started by the latest account change, 0 if none.
LastLogin == IF Logins = {} THEN 0 ELSE CHOOSE i \in Logins : \A j \in Logins : j <= i

TraceHas(t, e) == \E k \in 1..Len(t) : t[k].e = e

\* C1: at most one child process of the service is spawned and not yet
\* exited, in every reachable state (a signalled process that has not exited
\* still counts).
C1_AtMostOneLiveProcess == Cardinality(LiveProcs) <= 1

\* C2: when the login process of the currently stored account exits with
\* code 0, and no account change or dispose came after it was started, the
\* continuation spawns the serve process and makes it the active operation.
C2_LoginSuccessStartsServe ==
    [][(/\ microtasks # <<>>
        /\ Head(microtasks) = LastLogin
        /\ account # NoAccount
        /\ ~disposed
        /\ ops[Head(microtasks)].proc = "exited"
        /\ ops[Head(microtasks)].exitCode = 0)
       => (/\ Len(ops') = Len(ops) + 1
           /\ ops'[Len(ops')].label = "tunnel"
           /\ tunnelProcess' = Len(ops'))]_vars

\* C3: with account A stored and its live serve process the active
\* operation, updateAccount(B), B # A, signals that serve process before it
\* spawns B's login process.
C3_KillBeforeSpawn ==
    [][(/\ tunnelProcess # 0
        /\ ops[tunnelProcess].label = "tunnel"
        /\ ops[tunnelProcess].proc = "running"
        /\ account # NoAccount
        /\ account' # NoAccount
        /\ account' # account)
       => \E k, j \in 1..Len(trace') :
              /\ k < j
              /\ trace'[k].e = "kill" /\ trace'[k].op = tunnelProcess
              /\ trace'[j].e = "spawn:login" /\ trace'[j].a = account'
              /\ \A m \in 1..k : trace'[m].e # "spawn:login"]_vars

C3_Witness ==
    \E k, j \in 1..Len(trace) :
        /\ k < j
        /\ trace[1].e = "call:updateAccount"
        /\ trace[k].e = "kill" /\ ops[trace[k].op].label = "tunnel"
        /\ trace[j].e = "spawn:login"

\* C4: when the serve process that is the active operation exits without
\* having been cancelled, its completion handler clears the active
\* operation and the account and fires tunnel-failed once; nothing is
\* spawned afterwards except by a later updateAccount call.
C4_UnexpectedServeExit ==
    [][/\ (/\ tunnelProcess # 0
           /\ ops[tunnelProcess].label = "tunnel"
           /\ ~ops[tunnelProcess].cancelled
           /\ ops[tunnelProcess].proc = "running"
           /\ ops'[tunnelProcess].proc = "exited")
          => (microtasks' = <<tunnelProcess>> /\ tunnelProcess' = tunnelProcess)
       /\ (/\ microtasks # <<>>
           /\ Head(microtasks) = tunnelProcess
           /\ ops[tunnelProcess].label = "tunnel"
           /\ ~ops[tunnelProcess].cancelled
           /\ ops[tunnelProcess].proc = "exited")
          => (/\ tunnelProcess' = 0
              /\ account' = NoAccount
              /\ nTunnelFailed' = nTunnelFailed + 1
              /\ Cardinality({k \in 1..Len(trace') : trace'[k].e = "fire:tunnelFailed"}) = 1
              /\ Len(ops') = Len(ops))
       /\ (tunnelProcess = 0 /\ account = NoAccount /\ Len(ops') > Len(ops))
          => trace'[1].e = "call:updateAccount"]_vars

C4_Witness ==
    /\ trace # <<>>
    /\ trace[1].e = "microtask"
    /\ ops[trace[1].op].label = "tunnel"
    /\ ops[trace[1].op].proc = "exited"
    /\ ~ops[trace[1].op].cancelled
    /\ TraceHas(trace, "fire:tunnelFailed")
    /\ account = NoAccount
    /\ tunnelProcess = 0

\* C5: a login process that exits with a non-zero code makes the login
\* fail: active operation cleared, token-failed fired, no serve process.
C5_NonZeroLoginFails ==
    [][(/\ microtasks # <<>>
        /\ ops[Head(microtasks)].label = "login"
        /\ ops[Head(microtasks)].proc = "exited"
        /\ ops[Head(microtasks)].exitCode # 0)
       => (/\ tunnelProcess' = 0
           /\ nTokenFailed' = nTokenFailed + 1
           /\ Len(ops') = Len(ops))]_vars

\* C6: updateAccount(a) with a equal (provider id and token, or both
\* absent) to the stored account changes nothing: no store, no
\* notification, no cancel, no spawn; and every updateAccount(a) leaves a
\* stored, so the second of two identical consecutive calls is that no-op.
C6_SameAccountNoOp ==
    [][(trace' # <<>> /\ trace'[1].e = "call:updateAccount")
       => (/\ account' = trace'[1].a
           /\ (trace'[1].a = account)
              => (/\ account' = account
                  /\ tunnelProcess' = tunnelProcess
                  /\ ops' = ops
                  /\ microtasks' = microtasks
                  /\ nTokenFailed' = nTokenFailed
                  /\ nTunnelFailed' = nTunnelFailed
                  /\ Len(trace') = 1))]_vars

C6_Witness ==
    /\ trace = <<Ev("call:updateAccount", 0, account)>>
    /\ account # NoAccount
    /\ tunnelProcess # 0
    /\ ops[tunnelProcess].proc = "running"

\* C7: if the server exits (and its output ends) without a readiness marker
\* on stdout and without EADDRINUSE on stderr, the future of waitForEndpoint
\* has settled with a failure.
C7_ExitSettlesFuture ==
    (server = "closed" /\ ~sawMarker /\ ~sawEaddr) => future.state = "rejected"

\* C8: once a stderr chunk with EADDRINUSE has arrived before any stdout
\* match, the future is rejected with that error and stays rejected whatever
\* arrives later.
C8_PortConflictWins ==
    eaddrFirst => (future.state = "rejected" /\ HasEaddrInUse(future.value))

C8_Witness ==
    /\ eaddrFirst
    /\ sawMarker
    /\ endpointFound
    /\ future.state = "rejected"

\* C9: teardown never rejects: every call that is no longer waiting for a
\* tree-kill request has resolved, and it waits for at most MaxAttempts
\* requests.
C9_TeardownNeverRejects ==
    /\ tdState # "rejected"
    /\ (tdCalls > 0 /\ tdState # "killing") => tdState = "resolved"
    /\ tdState = "killing" => tdRetries <= MaxAttempts

C9_Witness ==
    /\ tdState = "resolved"
    /\ tdKills = MaxAttempts
    /\ tdProbes = MaxAttempts
    /\ tdLog = <<"error", "error", "error", "gave up">>

\* C10: teardown with an undefined pid resolves without any kill request
\* or probe; teardown of a pid whose process had already exited issues at
\* most one kill request and resolves on its outcome.
C10_TeardownIdempotent ==
    /\ (tdCalls > 0 /\ tdPid = 0)
       => (tdState = "resolved" /\ tdKills = 0 /\ tdProbes = 0)
    /\ (tdCalls > 0 /\ tdPid # 0 /\ ~tdAliveAtCall)
       => (/\ tdKills = 1
           /\ tdRetries = 1
           /\ tdState \in {"killing", "resolved"}
           /\ tdState = "killing" => tdProbes = 0)

C10_Witness ==
    /\ tdCalls > 0
    /\ tdPid # 0
    /\ ~tdAliveAtCall
    /\ tdState = "resolved"
    /\ tdProbes = 1


\* C11: after dispose() the active-operation slot is empty and the stored
\* account is absent.
C11_DisposeClearsState ==
    disposed => (tunnelProcess = 0 /\ account = NoAccount)

\* C12: the completion handler of a serve operation that is no longer the
\* active operation (cancelled by an account update or by dispose, or
\* otherwise replaced) fires no tunnel-failed and leaves the stored account
\* and the active operation as they are.
C12_StaleServeCompletionIgnored ==
    [][(/\ microtasks # <<>>
        /\ ops[Head(microtasks)].label = "tunnel"
        /\ (ops[Head(microtasks)].cancelled \/ tunnelProcess # Head(microtasks))
        /\ trace' # <<>>
        /\ trace'[1] = Ev("microtask", Head(microtasks), NoAccount))
       => (/\ account' = account
           /\ tunnelProcess' = tunnelProcess
           /\ nTunnelFailed' = nTunnelFailed
           /\ ~TraceHas(trace', "fire:tunnelFailed")
           /\ Len(ops') = Len(ops))]_vars

C12_Witness ==
    /\ trace # <<>>
    /\ trace[1].e = "microtask"
    /\ ops[trace[1].op].label = "tunnel"
    /\ ops[trace[1].op].cancelled
    /\ tunnelProcess # 0
    /\ ops[tunnelProcess].label = "login"
    /\ account # NoAccount

\* Invocations of updateTunnelProcess that have started and not finished:
\* the ones suspended at `await loginProcess`.
RunningReconciliations ==
    {i \in Logins : ops[i].cont # "done"}

\* C13: at most one invocation of updateTunnelProcess is started and not
\* yet finished at any time.
C13_ReconciliationsSerialized == Cardinality(RunningReconciliations) <= 1


\* Operations the service started that have neither settled nor been
\* cancelled: the login or serve phase is in progress.
OpsInProgress ==
    {i \in 1..Len(ops) : ops[i].promise = "pending" /\ ~ops[i].cancelled}

\* C14: the active-operation slot is non-empty iff a login or serve
\* operation the service started has neither settled nor been cancelled.
\* Stated for the states in which no completion reaction is still queued
\* (between a settlement and its reaction the slot is necessarily stale).
C14_SlotIffPhase ==
    microtasks = <<>> => ((tunnelProcess # 0) <=> (OpsInProgress # {}))

\* C15: when a login fails by an 'error' event of its process, the stored
\* account is unchanged, the slot is cleared, token-failed is fired and
\* nothing is spawned; with an empty slot only an updateAccount call that
\* changes the account spawns.
C15_LoginErrorNoRetry ==
    [][/\ (/\ microtasks # <<>>
           /\ ops[Head(microtasks)].label = "login"
           /\ ops[Head(microtasks)].proc = "errored")
          => (/\ account' = account
              /\ tunnelProcess' = 0
              /\ nTokenFailed' = nTokenFailed + 1
              /\ Len(ops') = Len(ops))
       /\ (tunnelProcess = 0 /\ Len(ops') > Len(ops))
          => (/\ trace'[1].e = "call:updateAccount"
              /\ account' # account
              /\ account' = trace'[1].a)]_vars

C15_Witness ==
    /\ trace # <<>>
    /\ trace[1].e = "microtask"
    /\ ops[trace[1].op].label = "login"
    /\ ops[trace[1].op].proc = "errored"
    /\ TraceHas(trace, "fire:tokenFailed")
    /\ account # NoAccount
    /\ tunnelProcess = 0

\* Position of the first effect e in a handler's trace, 0 if absent.
FirstAt(t, e) ==
    IF TraceHas(t, e) THEN CHOOSE k \in 1..Len(t) : t[k].e = e /\ \A j \in 1..k - 1 : t[j].e # e
    ELSE 0

ProcessEffects == {"cancel", "kill", "spawn:login", "spawn:tunnel"}

\* C16: within a handler, account-changed is fired after the new account
\* is stored and before anything is cancelled or spawned; token-failed
\* after the slot is cleared; tunnel-failed after the slot and the account
\* are cleared.
C16_NotifyAfterStateWritten ==
    /\ \A k \in 1..Len(trace) :
          trace[k].e = "fire:accountChanged"
          => (/\ \E j \in 1..k - 1 : trace[j] = Ev("account:=", 0, trace[k].a)
              /\ trace[k].a = account
              /\ \A j \in 1..k : trace[j].e \notin ProcessEffects)
    /\ \A k \in 1..Len(trace) :
          trace[k].e = "fire:tokenFailed"
          => (/\ \E j \in 1..k - 1 : trace[j] = Ev("tunnelProcess:=", 0, NoAccount)
              /\ \A j \in 1..k - 1 : trace[j].e = "tunnelProcess:=" => trace[j].op = 0)
    /\ \A k \in 1..Len(trace) :
          trace[k].e = "fire:tunnelFailed"
          => (/\ \E j \in 1..k - 1 : trace[j] = Ev("tunnelProcess:=", 0, NoAccount)
              /\ \E j \in 1..k - 1 : trace[j] = Ev("account:=", 0, NoAccount)
              /\ tunnelProcess = 0
              /\ account = NoAccount)

C16_Witness ==
    /\ FirstAt(trace, "fire:accountChanged") # 0
    /\ FirstAt(trace, "fire:accountChanged") < FirstAt(trace, "cancel")
    /\ FirstAt(trace, "cancel") < FirstAt(trace, "spawn:login")
    /\ trace[FirstAt(trace, "fire:accountChanged")].a = account


\* C17: one teardown call issues at most MaxAttempts tree-kill requests; a
\* request that succeeds ends the call; a further request is issued only
\* after the previous one failed and the probe found the process alive.
C17_BoundedKillAttempts ==
    [][/\ tdKills' <= MaxAttempts
       /\ (tdState = "killing" /\ tdKills' # tdKills)
          => (/\ tdKills' = tdKills + 1
              /\ tdProbes' = tdProbes + 1
              /\ tdAlive
              /\ tdLog' = Append(tdLog, "error"))
       /\ (tdState = "killing" /\ tdState' # "killing" /\ tdProbes' = tdProbes)
          => (tdState' = "resolved" /\ tdKills' = tdKills /\ tdLog' = tdLog)
       /\ (tdState = "killing" /\ tdProbes' # tdProbes /\ ~tdAlive)
          => (tdState' = "resolved" /\ tdKills' = tdKills)]_vars

C17_Witness ==
    /\ tdState = "killing"
    /\ tdKills = MaxAttempts
    /\ tdProbes = MaxAttempts - 1
    /\ tdAlive

\* C18: the future of waitForEndpoint settles once: a settled future never
\* changes, so later stdout matches keep the first endpoint and later
\* EADDRINUSE chunks do not fail it; the first stdout match on a pending
\* future resolves it with a non-empty capture without line break.
C18_FirstOutcomeWins ==
    [][/\ future.state # "pending" => future' = future
       /\ (future.state = "pending" /\ ~sawMarker /\ sawMarker')
          => (/\ future'.state = "resolved"
              /\ endpointFound'
              /\ future'.value # <<>>
              /\ \A k \in 1..Len(future'.value) : future'.value[k] # "nl")]_vars

C18_Witness ==
    /\ future.state = "resolved"
    /\ sawEaddr
    /\ ~eaddrFirst
    /\ epChunks = MaxChunks

\* C19: token-failed is fired only for a login whose process raised
\* 'error' or exited with a non-zero code, never for a cancelled login.
C19_TokenFailedOnlyOnLoginFailure ==
    [][nTokenFailed' # nTokenFailed
       => (/\ microtasks # <<>>
           /\ ops[Head(microtasks)].label = "login"
           /\ ~ops[Head(microtasks)].cancelled
           /\ \/ ops[Head(microtasks)].proc = "errored"
              \/ (ops[Head(microtasks)].proc = "exited"
                  /\ ops[Head(microtasks)].exitCode # 0))]_vars

\* C20: without a stored account the active-operation slot is empty.
C20_NoAccountNoOperation == account = NoAccount => tunnelProcess = 0

C20_Witness ==
    /\ account = NoAccount
    /\ tunnelProcess = 0
    /\ trace # <<>>
    /\ trace[1].e = "call:updateAccount"
    /\ TraceHas(trace, "cancel")
    /\ LiveProcs # {}

====
